---- MODULE Spec2Model ----
(***************************************************************************)
(* State-machine model of typhoon_7b_extractor.py: the page-by-page        *)
(* extraction loop (extract_pdf_multipage), the directory walker           *)
(* (process_directory) and the script entry point (__main__ with           *)
(* get_api_key_priority_order and parse_args).                             *)
(*                                                                         *)
(* Python strings are TLA+ strings; TLC evaluates Len, SubSeq, Tail and \o *)
(* on them, so str.lower, str.strip, the `in` substring test and           *)
(* "\n\n".join are computed character by character.                        *)
(***************************************************************************)
EXTENDS Integers, Sequences, FiniteSets, TLC

\* typhoon_7b_extractor.py:34
MAX_RETRIES == 5

\* MIN_DELAY (line 33), in milliseconds: the least throttle sleep; the jitter of
\* line 78 only adds to it
MIN_DELAY_MS == 400

\* Largest page number for which the modelled backend answers with anything
\* but an end-of-document error (the document model has at most this many pages).
MaxPage == 3

\* Largest number of rate-limit answers the modelled backend gives for one document.
MaxRateLimits == 5

(***************************************************************************)
(* String helpers (Python str methods used by the script).                 *)
(***************************************************************************)

\* `sub in s`
Contains(s, sub) ==
    \E i \in 1..(Len(s) - Len(sub) + 1) : SubSeq(s, i, i + Len(sub) - 1) = sub

UpperAlphabet == "ABCDEFGHIJKLMNOPQRSTUVWXYZ"
LowerAlphabet == "abcdefghijklmnopqrstuvwxyz"

LowerChar(c) ==
    IF \E i \in 1..26 : SubSeq(UpperAlphabet, i, i) = c
    THEN LET i == CHOOSE k \in 1..26 : SubSeq(UpperAlphabet, k, k) = c
         IN  SubSeq(LowerAlphabet, i, i)
    ELSE c

RECURSIVE Lower(_)
\* str.lower()
Lower(s) ==
    IF s = "" THEN "" ELSE LowerChar(SubSeq(s, 1, 1)) \o Lower(Tail(s))

\* the whitespace characters of the model's alphabet
Whitespace == {" ", "\n", "\t"}

RECURSIVE LStrip(_)
LStrip(s) ==
    IF s # "" /\ SubSeq(s, 1, 1) \in Whitespace THEN LStrip(Tail(s)) ELSE s

RECURSIVE RStrip(_)
RStrip(s) ==
    IF s # "" /\ SubSeq(s, Len(s), Len(s)) \in Whitespace
    THEN RStrip(SubSeq(s, 1, Len(s) - 1))
    ELSE s

\* str.strip()
Strip(s) == RStrip(LStrip(s))

RECURSIVE Join(_, _)
\* sep.join(parts)
Join(sep, parts) ==
    IF parts = <<>> THEN ""
    ELSE IF Len(parts) = 1 THEN parts[1]
    ELSE parts[1] \o sep \o Join(sep, Tail(parts))

StartsWith(s, p) == Len(s) >= Len(p) /\ SubSeq(s, 1, Len(p)) = p
EndsWith(s, p) == Len(s) >= Len(p) /\ SubSeq(s, Len(s) - Len(p) + 1, Len(s)) = p

(***************************************************************************)
(* json.loads on the response alphabet of the model: an object holding a   *)
(* string "natural_text", the empty object, a scalar (number, null, true,  *)
(* false), or no JSON at all (json.JSONDecodeError).                       *)
(***************************************************************************)
ObjPrefix == "{\"natural_text\": \""
ObjSuffix == "\"}"

IsDigits(s) ==
    /\ s # ""
    /\ \A i \in 1..Len(s) : Contains("0123456789", SubSeq(s, i, i))

JsonLoads(s) ==
    LET t == Strip(s)
        inner == SubSeq(t, Len(ObjPrefix) + 1, Len(t) - Len(ObjSuffix))
    IN  IF /\ Len(t) >= Len(ObjPrefix) + Len(ObjSuffix)
           /\ StartsWith(t, ObjPrefix)
           /\ EndsWith(t, ObjSuffix)
           /\ ~Contains(inner, "\"")
           /\ ~Contains(inner, "\\")
        THEN [kind |-> "dict", has_text |-> TRUE, natural_text |-> inner]
        ELSE IF t = "{}"
        THEN [kind |-> "dict", has_text |-> FALSE, natural_text |-> ""]
        ELSE IF IsDigits(t) \/ t \in {"null", "true", "false"}
        THEN [kind |-> "scalar", has_text |-> FALSE, natural_text |-> ""]
        ELSE [kind |-> "JSONDecodeError", has_text |-> FALSE, natural_text |-> ""]

\* A backend answer: a returned value (a str, or another object with its str())
\* or a raised exception with its message.
OkStr(s) == [raised |-> FALSE, isstr |-> TRUE, s |-> s]
OkObj(s) == [raised |-> FALSE, isstr |-> FALSE, s |-> s]
Err(m)   == [raised |-> TRUE, isstr |-> FALSE, s |-> m]

AttributeErrorMsg == "'int' object has no attribute 'get'"

\* _parse_typhoon_response: the text of a response, or the exception it raises
_parse_typhoon_response(resp) ==
    IF resp.isstr
    THEN LET parsed == JsonLoads(resp.s)
         IN  CASE parsed.kind = "JSONDecodeError" -> OkStr(resp.s)
               [] parsed.kind = "dict" ->
                    OkStr(IF parsed.has_text THEN parsed.natural_text ELSE resp.s)
               [] OTHER -> Err(AttributeErrorMsg)
    ELSE OkStr(resp.s)

(***************************************************************************)
(* Classification of an exception by its message (lines 95-113).           *)
(***************************************************************************)
IsEndOfDoc(e) ==
    LET msg == Lower(e)
    IN  \/ /\ Contains(msg, "page")
           /\ \/ Contains(msg, "not found")
              \/ Contains(msg, "invalid")
              \/ Contains(msg, "out of range")
        \/ (Contains(msg, "index") /\ Contains(msg, "range"))
        \/ Contains(msg, "wrong page range")
        \/ (Contains(msg, "first page") /\ Contains(msg, "after the last page"))

\* IsRateLimit that compares the words of the message in their own letter case
IsRateLimit_CaseSensitive(e) ==
    \/ Contains(e, "429")
    \/ Contains(e, "rate limit")
    \/ Contains(e, "too many requests")

IsRateLimit(e) ==
    LET msg == Lower(e)
    IN  \/ Contains(e, "429")
        \/ Contains(msg, "rate limit")
        \/ Contains(msg, "too many requests")

\* Classify with the test of line 113 moved before the test of lines 98-101
Classify_RateLimitFirst(e) ==
    IF IsRateLimit(e) THEN "RateLimited"
    ELSE IF IsEndOfDoc(e) THEN "EndOfDocument"
    ELSE "Other"

\* the branch of the except clause an exception message takes
Classify(e) ==
    IF IsEndOfDoc(e) THEN "EndOfDocument"
    ELSE IF IsRateLimit(e) THEN "RateLimited"
    ELSE "Other"

\* Path.stem of a file name: the name without its last suffix
Stem(name) ==
    LET dots == {i \in 1..Len(name) : SubSeq(name, i, i) = "."}
        last == CHOOSE i \in dots : \A j \in dots : j <= i
    IN  IF dots # {} /\ 1 < last /\ last < Len(name)
        THEN SubSeq(name, 1, last - 1)
        ELSE name

\* f"{pdf_path.stem}.txt" (line 65)
OutName(name) == Stem(name) \o ".txt"

(***************************************************************************)
(* The answers of the modelled OCR backend.                                *)
(***************************************************************************)
RateLimitError == Err("429 Too Many Requests")
EndOfDocError  == Err("Wrong page range given: first page (9) after the last page (8)")
OtherError     == Err("Connection reset by peer")

Responses ==
    { OkStr("A"),                              \* plain text
      OkStr(" B\n"),                           \* text with surrounding whitespace
      OkStr(" \n"),                            \* a blank page
      OkStr("{\"natural_text\": \"C\"}"),      \* serialized structure with a text field
      OkStr("7"),                              \* a page whose text is a number
      RateLimitError, OtherError, EndOfDocError }

\* the answers the backend gives while a directory is walked
WalkerResponses == {OkStr("A"), RateLimitError, OtherError, EndOfDocError}

\* the documents of a walked directory have at most this many pages
WalkerMaxPage == 1

\* further exception messages a backend may raise: throttling reported in other
\* words or letter case, and messages that speak of throttling and of the page
\* range at once
SignalErrors ==
    { Err("Rate limit reached"),
      Err("TOO MANY REQUESTS"),
      Err("Quota exceeded"),
      Err("429: page out of range"),
      Err("Too many requests: index out of range") }

\* the answers the backend gives while the classification of errors is studied
SignalResponses == {OkStr("A"), RateLimitError, OtherError, EndOfDocError} \cup SignalErrors

\* the documents whose errors are classified have at most this many pages
SignalMaxPage == 2

\* Largest number of answers from SignalErrors the modelled backend gives for
\* one document.
MaxSignals == 2

AllResponses == Responses \cup WalkerResponses \cup SignalResponses

(***************************************************************************)
(* File names: ordering by code point (sorted(..., key=lambda p: p.name))  *)
(* and the glob pattern "*.pdf".                                           *)
(***************************************************************************)
\* the characters of file names, in increasing code point order
CodePointOrder == ".0123456789ABCDEFGHIJKLMNOPQRSTUVWXYZ_abcdefghijklmnopqrstuvwxyz"

Ord(c) == CHOOSE i \in 1..Len(CodePointOrder) : SubSeq(CodePointOrder, i, i) = c

RECURSIVE StrLess(_, _)
\* a < b on Python strings
StrLess(a, b) ==
    IF b = "" THEN FALSE
    ELSE IF a = "" THEN TRUE
    ELSE IF SubSeq(a, 1, 1) = SubSeq(b, 1, 1) THEN StrLess(Tail(a), Tail(b))
    ELSE Ord(SubSeq(a, 1, 1)) < Ord(SubSeq(b, 1, 1))

RECURSIVE SortedByName(_)
\* sorted(names, key=name)
SortedByName(names) ==
    IF names = {} THEN <<>>
    ELSE LET least == CHOOSE n \in names : \A m \in names \ {n} : StrLess(n, m)
         IN  <<least>> \o SortedByName(names \ {least})

\* dir_path.glob("*.pdf")
GlobPdf(names) == {n \in names : EndsWith(n, ".pdf")}

(***************************************************************************)
(* Credential resolution.  An optional string is <<>> (None) or <<s>>.     *)
(***************************************************************************)
Truthy(opt) == opt # <<>> /\ opt[1] # ""

\* parse_args, line 231: args.api_key_named or args.api_key
ParsedApiKey(args) == IF Truthy(args.api_key_named) THEN args.api_key_named ELSE args.api_key

\* get_api_key_priority_order without .lower(): only "none" and "dummy" as written
get_api_key_priority_order_CaseSensitive(provided_key, env) ==
    IF Truthy(provided_key) /\ provided_key[1] \notin {"none", "dummy", ""}
    THEN [ok |-> TRUE, key |-> provided_key[1]]
    ELSE IF Truthy(env.TYPHOON_OCR_API_KEY)
    THEN [ok |-> TRUE, key |-> env.TYPHOON_OCR_API_KEY[1]]
    ELSE IF Truthy(env.OPENAI_API_KEY)
    THEN [ok |-> TRUE, key |-> env.OPENAI_API_KEY[1]]
    ELSE [ok |-> FALSE, key |-> ""]

\* get_api_key_priority_order: the key, or ok = FALSE for SystemExit
get_api_key_priority_order(provided_key, env) ==
    IF Truthy(provided_key) /\ Lower(provided_key[1]) \notin {"none", "dummy", ""}
    THEN [ok |-> TRUE, key |-> provided_key[1]]
    ELSE IF Truthy(env.TYPHOON_OCR_API_KEY)
    THEN [ok |-> TRUE, key |-> env.TYPHOON_OCR_API_KEY[1]]
    ELSE IF Truthy(env.OPENAI_API_KEY)
    THEN [ok |-> TRUE, key |-> env.OPENAI_API_KEY[1]]
    ELSE [ok |-> FALSE, key |-> ""]

VARIABLES
    pc,            \* control point of extract_pdf_multipage
    pdf,           \* pdf_path.name of the document being extracted
    page_num,      \* the page cursor
    pages,         \* the accumulated page texts
    retries,       \* retry counter of the current page
    page_success,  \* flag of the current page
    ret,           \* return value: <<>> is None, <<name>> is out_path
    out_dir,       \* what output_dir is on disk: "missing", "dir" or "file"
    out_files,     \* regular files of output_dir: name -> content
    out_subdirs,   \* names in output_dir that are directories
    log,           \* history: the backend calls made, [page, resp]
    files_at_entry,\* history: out_files when extract_pdf_multipage was entered
    events,        \* history: sleeps, backend calls and file writes, in order
    wpc,           \* control point of the script (__main__ and process_directory)
    argv,          \* the api key arguments of the command line
    environ,       \* os.environ: TYPHOON_OCR_API_KEY and OPENAI_API_KEY
    exit_status,   \* exit status of the script once it has exited
    in_kind,       \* what dir_path is on disk: "missing", "file" or "dir"
    in_names,      \* the names of the entries of dir_path
    pdfs,          \* process_directory: the sorted list of PDFs
    idx,           \* process_directory: the loop index i
    results,       \* process_directory: the list of produced paths
    outcomes,      \* history: how the extraction of each document ended
    at_start,      \* history: output directory and environment at the start
    split_pc,      \* chuck_spliter: control point of the call of split_into_chunks
    file_list,     \* chuck_spliter: the list given to split_into_chunks
    num_chunks,    \* chuck_spliter: the number of chunks asked for
    chunks,        \* chuck_spliter: the list of chunks returned
    ocr_pc,        \* easy_ocr_extractor: control point of main and pdfs_to_easyocr_text
    ocr_argv,      \* easy_ocr_extractor: the --dpi option of the command line
    ocr_args,      \* easy_ocr_extractor: the parsed arguments
    ocr_dir,       \* easy_ocr_extractor: what input_dir is on disk and its entries
    pdf_files,     \* easy_ocr_extractor: the PDFs still to be processed
    conversions,   \* history: the calls of convert_from_path, [pdf, dpi]
    txt_files,     \* easy_ocr_extractor: the text files written: name -> content
    ocr_exit       \* easy_ocr_extractor: exit status once main has ended

extractVars == <<pc, pdf, page_num, pages, retries, page_success, ret,
                 out_dir, out_files, out_subdirs, log, files_at_entry, events>>

scriptVars == <<wpc, argv, environ, exit_status, in_kind, in_names, pdfs, idx, results,
                outcomes, at_start>>

splitVars == <<split_pc, file_list, num_chunks, chunks>>

ocrVars == <<ocr_pc, ocr_argv, ocr_args, ocr_dir, pdf_files, conversions, txt_files, ocr_exit>>

toolVars == <<splitVars, ocrVars>>

vars == <<extractVars, scriptVars, toolVars>>

NoFiles == [n \in {} |-> ""]
NoArgs == [api_key_named |-> <<>>, api_key |-> <<>>]
NoEnviron == [TYPHOON_OCR_API_KEY |-> <<>>, OPENAI_API_KEY |-> <<>>]

WriteText(files, name, content) ==
    [n \in DOMAIN files \cup {name} |-> IF n = name THEN content ELSE files[n]]

\* what one attempt observes inside the try block (lines 81-86): the stripped
\* text, or the exception raised by the backend or by the parsing of its answer
Observe(resp) ==
    IF resp.raised THEN resp
    ELSE LET p == _parse_typhoon_response(resp)
         IN  IF p.raised THEN p ELSE OkStr(Strip(p.s))

\* the branch of the loop body an answer takes (lines 86-126)
Branch(resp) ==
    IF Observe(resp).raised THEN Classify(Observe(resp).s) ELSE "Success"

\* Observe and Branch of every modelled answer, evaluated once
Observed == [resp \in AllResponses |-> Observe(resp)]
BranchOf == [resp \in AllResponses |-> Branch(resp)]

\* the answers a backend gives for a page beyond the last page of the document
EndOfDocAnswers == {resp \in AllResponses : resp.raised /\ IsEndOfDoc(resp.s)}

RateLimitsIn(l) == Cardinality({i \in 1..Len(l) : BranchOf[l[i].resp] = "RateLimited"})

SignalsIn(l) == Cardinality({i \in 1..Len(l) : l[i].resp \in SignalErrors})

\* bound of the backend model: beyond page `limit` it only reports the end of
\* the document, and it throttles at most MaxRateLimits times per document
BackendMayAnswer(resp, limit) ==
    /\ (page_num <= limit \/ resp \in EndOfDocAnswers)
    /\ (BranchOf[resp] = "RateLimited" => RateLimitsIn(log) < MaxRateLimits)
    /\ (resp \in SignalErrors => SignalsIn(log) < MaxSignals)

\* CallEvents that throttles the first attempt of a page only, not its retries
CallEvents_ThrottlesFirstAttemptOnly(resp) ==
    (IF page_num > 1 /\ retries = 0
     THEN <<[kind |-> "throttle", page |-> page_num, n |-> MIN_DELAY_MS]>> ELSE <<>>)
    \o <<[kind |-> "call", page |-> page_num, n |-> retries]>>

\* lines 75-85: the throttle sleep of pages after the first, then the call
CallEvents(resp) ==
    (IF page_num > 1
     THEN <<[kind |-> "throttle", page |-> page_num, n |-> MIN_DELAY_MS]>> ELSE <<>>)
    \o <<[kind |-> "call", page |-> page_num, n |-> retries]>>

\* Begin with a cursor that counts pages from zero
Begin_StartsAtZero ==
    /\ pc = "entry"
    /\ page_num' = 0
    /\ pages' = <<>>
    /\ retries' = 0
    /\ page_success' = FALSE
    /\ log' = <<>>
    /\ events' = <<>>
    /\ files_at_entry' = out_files
    /\ IF out_dir = "file"
       THEN pc' = "raised" /\ out_dir' = out_dir
       ELSE pc' = "probing" /\ out_dir' = "dir"
    /\ UNCHANGED <<pdf, ret, out_files, out_subdirs>>

\* lines 58-67: entry of extract_pdf_multipage
Begin ==
    /\ pc = "entry"
    /\ page_num' = 1
    /\ pages' = <<>>
    /\ retries' = 0
    /\ page_success' = FALSE
    /\ log' = <<>>
    /\ events' = <<>>
    /\ files_at_entry' = out_files
    /\ IF out_dir = "file"
       THEN pc' = "raised" /\ out_dir' = out_dir       \* mkdir: FileExistsError
       ELSE pc' = "probing" /\ out_dir' = "dir"
    /\ UNCHANGED <<pdf, ret, out_files, out_subdirs>>

\* AttemptSuccess without the test of line 87: blank text is accumulated too
AttemptSuccess_AppendsBlank(resp, limit) ==
    /\ pc = "probing"
    /\ BackendMayAnswer(resp, limit)
    /\ BranchOf[resp] = "Success"
    /\ pages' = Append(pages, Observed[resp].s)
    /\ page_success' = TRUE
    /\ page_num' = page_num + 1
    /\ pc' = "page_end"
    /\ log' = Append(log, [page |-> page_num, resp |-> resp])
    /\ events' = events \o CallEvents(resp)
    /\ UNCHANGED <<pdf, retries, ret, out_dir, out_files, out_subdirs, files_at_entry>>

\* AttemptSuccess that also saves the accumulated texts after every page
AttemptSuccess_WritesEachPage(resp, limit) ==
    /\ pc = "probing"
    /\ BackendMayAnswer(resp, limit)
    /\ BranchOf[resp] = "Success"
    /\ LET text == Observed[resp].s
           acc  == IF text # "" THEN Append(pages, text) ELSE pages
       IN  /\ pages' = acc
           /\ out_files' = WriteText(out_files, OutName(pdf), Join("\n\n", acc))
           /\ events' = events \o CallEvents(resp)
                          \o <<[kind |-> "write", page |-> page_num, n |-> Len(acc)]>>
    /\ page_success' = TRUE
    /\ page_num' = page_num + 1
    /\ pc' = "page_end"
    /\ log' = Append(log, [page |-> page_num, resp |-> resp])
    /\ UNCHANGED <<pdf, retries, ret, out_dir, out_subdirs, files_at_entry>>

\* lines 81-92: the backend answered and the answer parsed
AttemptSuccess(resp, limit) ==
    /\ pc = "probing"
    /\ BackendMayAnswer(resp, limit)
    /\ BranchOf[resp] = "Success"
    /\ LET text == Observed[resp].s
       IN  pages' = IF text # "" THEN Append(pages, text) ELSE pages
    /\ page_success' = TRUE
    /\ page_num' = page_num + 1
    /\ pc' = "page_end"
    /\ log' = Append(log, [page |-> page_num, resp |-> resp])
    /\ events' = events \o CallEvents(resp)
    /\ UNCHANGED <<pdf, retries, ret, out_dir, out_files, out_subdirs, files_at_entry>>

\* lines 97-110: end-of-document signal
AttemptEndOfDoc(resp, limit) ==
    /\ pc = "probing"
    /\ BackendMayAnswer(resp, limit)
    /\ BranchOf[resp] = "EndOfDocument"
    /\ log' = Append(log, [page |-> page_num, resp |-> resp])
    /\ IF pages # <<>>
       THEN IF OutName(pdf) \in out_subdirs
            THEN \* write_text: IsADirectoryError leaves the function
                 /\ pc' = "raised"
                 /\ events' = events \o CallEvents(resp)
                 /\ UNCHANGED <<ret, out_files>>
            ELSE /\ out_files' = WriteText(out_files, OutName(pdf), Join("\n\n", pages))
                 /\ events' = events \o CallEvents(resp)
                                \o <<[kind |-> "write", page |-> page_num, n |-> Len(pages)]>>
                 /\ ret' = <<OutName(pdf)>>
                 /\ pc' = "returned"
       ELSE /\ ret' = <<>>
            /\ pc' = "returned"
            /\ events' = events \o CallEvents(resp)
            /\ UNCHANGED out_files
    /\ UNCHANGED <<pdf, page_num, pages, retries, page_success, out_dir, out_subdirs,
                   files_at_entry>>

\* AttemptRateLimit that gives the page up at the first rate limit
AttemptRateLimit_SkipsPage(resp, limit) ==
    /\ pc = "probing"
    /\ BackendMayAnswer(resp, limit)
    /\ BranchOf[resp] = "RateLimited"
    /\ retries' = retries + 1
    /\ page_num' = page_num + 1
    /\ log' = Append(log, [page |-> page_num, resp |-> resp])
    /\ events' = events \o CallEvents(resp)
                   \o <<[kind |-> "backoff", page |-> page_num, n |-> 2 ^ (retries + 1)]>>
    /\ pc' = "page_end"
    /\ UNCHANGED <<pdf, pages, page_success, ret, out_dir, out_files, out_subdirs,
                   files_at_entry>>

\* AttemptRateLimit whose loop test is retries <= MAX_RETRIES
AttemptRateLimit_OneMoreTry(resp, limit) ==
    /\ pc = "probing"
    /\ BackendMayAnswer(resp, limit)
    /\ BranchOf[resp] = "RateLimited"
    /\ retries' = retries + 1
    /\ log' = Append(log, [page |-> page_num, resp |-> resp])
    /\ events' = events \o CallEvents(resp)
                   \o <<[kind |-> "backoff", page |-> page_num, n |-> 2 ^ (retries + 1)]>>
    /\ pc' = IF retries + 1 <= MAX_RETRIES THEN "probing" ELSE "page_end"
    /\ UNCHANGED <<pdf, page_num, pages, page_success, ret, out_dir, out_files, out_subdirs,
                   files_at_entry>>

\* lines 112-121 and the loop test of line 73: rate-limit signal
AttemptRateLimit(resp, limit) ==
    /\ pc = "probing"
    /\ BackendMayAnswer(resp, limit)
    /\ BranchOf[resp] = "RateLimited"
    /\ retries' = retries + 1
    /\ log' = Append(log, [page |-> page_num, resp |-> resp])
    /\ events' = events \o CallEvents(resp)
                   \o <<[kind |-> "backoff", page |-> page_num, n |-> 2 ^ (retries + 1)]>>
    /\ pc' = IF retries + 1 < MAX_RETRIES THEN "probing" ELSE "page_end"
    /\ UNCHANGED <<pdf, page_num, pages, page_success, ret, out_dir, out_files, out_subdirs,
                   files_at_entry>>

\* lines 123-126: any other exception
AttemptOther(resp, limit) ==
    /\ pc = "probing"
    /\ BackendMayAnswer(resp, limit)
    /\ BranchOf[resp] = "Other"
    /\ page_num' = page_num + 1
    /\ pc' = "page_end"
    /\ log' = Append(log, [page |-> page_num, resp |-> resp])
    /\ events' = events \o CallEvents(resp)
    /\ UNCHANGED <<pdf, pages, retries, page_success, ret, out_dir, out_files, out_subdirs,
                   files_at_entry>>

\* PageEnd without the increment of line 131: the exhausted page is probed again
PageEnd_NoSkip ==
    /\ pc = "page_end"
    /\ page_num' = page_num
    /\ retries' = 0
    /\ page_success' = FALSE
    /\ pc' = "probing"
    /\ UNCHANGED <<pdf, pages, ret, out_dir, out_files, out_subdirs, log, files_at_entry,
                   events>>

\* PageEnd whose test of line 129 is only `not page_success`
PageEnd_SkipsOnAnyFailure ==
    /\ pc = "page_end"
    /\ page_num' = IF ~page_success THEN page_num + 1 ELSE page_num
    /\ retries' = 0
    /\ page_success' = FALSE
    /\ pc' = "probing"
    /\ UNCHANGED <<pdf, pages, ret, out_dir, out_files, out_subdirs, log, files_at_entry,
                   events>>

\* PageEnd that gives the document up when a page has used up its retries
PageEnd_ReturnsOnExhaustion ==
    /\ pc = "page_end"
    /\ IF ~page_success /\ retries >= MAX_RETRIES
       THEN /\ pc' = "returned"
            /\ ret' = <<>>
            /\ UNCHANGED <<page_num, retries, page_success>>
       ELSE /\ pc' = "probing"
            /\ retries' = 0
            /\ page_success' = FALSE
            /\ UNCHANGED <<page_num, ret>>
    /\ UNCHANGED <<pdf, pages, out_dir, out_files, out_subdirs, log, files_at_entry, events>>

\* PageEnd without the reset of line 70: the counter carries over to the next page
PageEnd_NoReset ==
    /\ pc = "page_end"
    /\ page_num' = IF ~page_success /\ retries >= MAX_RETRIES THEN page_num + 1 ELSE page_num
    /\ retries' = retries
    /\ page_success' = FALSE
    /\ pc' = "probing"
    /\ UNCHANGED <<pdf, pages, ret, out_dir, out_files, out_subdirs, log, files_at_entry,
                   events>>

\* lines 128-131, then lines 69-71 of the next iteration of the outer loop
PageEnd ==
    /\ pc = "page_end"
    /\ page_num' = IF ~page_success /\ retries >= MAX_RETRIES THEN page_num + 1 ELSE page_num
    /\ retries' = 0
    /\ page_success' = FALSE
    /\ pc' = "probing"
    /\ UNCHANGED <<pdf, pages, ret, out_dir, out_files, out_subdirs, log, files_at_entry,
                   events>>

\* chuck_spliter.py is not running
SplitUnused ==
    /\ split_pc = "unused"
    /\ file_list = <<>>
    /\ num_chunks = 0
    /\ chunks = <<>>

\* easy_ocr_extractor.py is not running
OcrUnused ==
    /\ ocr_pc = "unused"
    /\ ocr_argv = <<>>
    /\ ocr_args = [dpi |-> 0]
    /\ ocr_dir = [kind |-> "missing", names |-> {}, out |-> "missing"]
    /\ pdf_files = <<>>
    /\ conversions = <<>>
    /\ txt_files = NoFiles
    /\ ocr_exit = -1

\* one extraction: a document name and an output directory still to be created
Init ==
    /\ SplitUnused
    /\ OcrUnused
    /\ pc = "entry"
    /\ pdf = "doc.pdf"
    /\ page_num = 0
    /\ pages = <<>>
    /\ retries = 0
    /\ page_success = FALSE
    /\ ret = <<>>
    /\ out_dir = "missing"
    /\ out_files = NoFiles
    /\ out_subdirs = {}
    /\ log = <<>>
    /\ files_at_entry = out_files
    /\ events = <<>>
    /\ wpc = "extracting"
    /\ argv = NoArgs
    /\ environ = NoEnviron
    /\ exit_status = -1
    /\ in_kind = "dir"
    /\ in_names = {"doc.pdf"}
    /\ pdfs = <<"doc.pdf">>
    /\ idx = 1
    /\ results = <<>>
    /\ outcomes = <<>>
    /\ at_start = [dir |-> out_dir, files |-> out_files, environ |-> environ]

\* the steps of one call of extract_pdf_multipage
Next ==
    \/ Begin /\ UNCHANGED <<scriptVars, toolVars>>
    \/ \E resp \in Responses : AttemptSuccess(resp, MaxPage) /\ UNCHANGED <<scriptVars, toolVars>>
    \/ \E resp \in Responses : AttemptEndOfDoc(resp, MaxPage) /\ UNCHANGED <<scriptVars, toolVars>>
    \/ \E resp \in Responses : AttemptRateLimit(resp, MaxPage) /\ UNCHANGED <<scriptVars, toolVars>>
    \/ \E resp \in Responses : AttemptOther(resp, MaxPage) /\ UNCHANGED <<scriptVars, toolVars>>
    \/ PageEnd /\ UNCHANGED <<scriptVars, toolVars>>

Spec == Init /\ [][Next]_vars

\* the steps of one call of extract_pdf_multipage on a short document whose
\* backend raises errors with a variety of messages
NextSignals ==
    \/ Begin /\ UNCHANGED <<scriptVars, toolVars>>
    \/ \E resp \in SignalResponses : AttemptSuccess(resp, SignalMaxPage) /\ UNCHANGED <<scriptVars, toolVars>>
    \/ \E resp \in SignalResponses : AttemptEndOfDoc(resp, SignalMaxPage) /\ UNCHANGED <<scriptVars, toolVars>>
    \/ \E resp \in SignalResponses : AttemptRateLimit(resp, SignalMaxPage) /\ UNCHANGED <<scriptVars, toolVars>>
    \/ \E resp \in SignalResponses : AttemptOther(resp, SignalMaxPage) /\ UNCHANGED <<scriptVars, toolVars>>
    \/ PageEnd /\ UNCHANGED <<scriptVars, toolVars>>

SpecSignals == Init /\ [][NextSignals]_vars

(***************************************************************************)
(* The script: __main__ and process_directory.                             *)
(***************************************************************************)
localVars == <<page_num, pages, retries, page_success, log, files_at_entry, events>>

\* Main without the validation of lines 252-257
Main_SkipsValidation ==
    /\ wpc = "main"
    /\ LET key == get_api_key_priority_order(ParsedApiKey(argv), environ)
       IN  IF ~key.ok
           THEN /\ exit_status' = 1
                /\ wpc' = "exited"
                /\ UNCHANGED environ
           ELSE /\ environ' = [environ EXCEPT !.TYPHOON_OCR_API_KEY = <<key.key>>]
                /\ wpc' = "process_directory"
                /\ UNCHANGED exit_status
    /\ UNCHANGED <<extractVars, argv, in_kind, in_names, pdfs, idx, results, outcomes,
                   at_start>>

\* lines 242-264: arguments, credential, validation of the input directory
Main ==
    /\ wpc = "main"
    /\ LET key == get_api_key_priority_order(ParsedApiKey(argv), environ)
       IN  IF ~key.ok
           THEN /\ exit_status' = 1           \* SystemExit("No API key found...")
                /\ wpc' = "exited"
                /\ UNCHANGED environ
           ELSE /\ environ' = [environ EXCEPT !.TYPHOON_OCR_API_KEY = <<key.key>>]
                /\ IF in_kind = "missing"
                   THEN exit_status' = 1 /\ wpc' = "exited"   \* SystemExit(message)
                   ELSE IF in_kind # "dir"
                   THEN exit_status' = 1 /\ wpc' = "exited"   \* SystemExit(message)
                   ELSE wpc' = "process_directory" /\ UNCHANGED exit_status
    /\ UNCHANGED <<extractVars, argv, in_kind, in_names, pdfs, idx, results, outcomes,
                   at_start>>

\* lines 143-157: entry of process_directory
ProcessDirectory ==
    /\ wpc = "process_directory"
    /\ results' = <<>>
    /\ IF in_kind = "missing"
       THEN wpc' = "finish" /\ UNCHANGED <<pdfs, idx>>
       ELSE /\ pdfs' = SortedByName(GlobPdf(in_names))
            /\ idx' = 1
            /\ wpc' = IF GlobPdf(in_names) = {} THEN "finish" ELSE "loop"
    /\ UNCHANGED <<extractVars, argv, environ, exit_status, in_kind, in_names, outcomes,
                   at_start>>

\* lines 159-161: the call of extract_pdf_multipage for pdfs[i]
CallExtract ==
    /\ wpc = "loop"
    /\ wpc' = "extracting"
    /\ pdf' = pdfs[idx]
    /\ pc' = "entry"
    /\ ret' = <<>>
    /\ UNCHANGED <<localVars, out_dir, out_files, out_subdirs>>
    /\ UNCHANGED <<argv, environ, exit_status, in_kind, in_names, pdfs, idx, results,
                   outcomes, at_start>>

\* AfterExtract that lets an exception end the loop over the documents
AfterExtract_StopsOnError ==
    /\ wpc = "extracting"
    /\ pc \in {"returned", "raised"}
    /\ results' = IF pc = "returned" /\ ret # <<>> THEN Append(results, ret[1]) ELSE results
    /\ outcomes' = Append(outcomes, [name |-> pdf, how |-> pc, ret |-> ret])
    /\ IF idx < Len(pdfs) /\ pc # "raised"
       THEN idx' = idx + 1 /\ wpc' = "loop"
       ELSE idx' = idx /\ wpc' = "finish"
    /\ pc' = "idle"
    /\ UNCHANGED <<pdf, ret, localVars, out_dir, out_files, out_subdirs>>
    /\ UNCHANGED <<argv, environ, exit_status, in_kind, in_names, pdfs, at_start>>

\* lines 162-173: the result or the exception of the call, the delay between
\* files, and the next iteration or the return of the list
AfterExtract ==
    /\ wpc = "extracting"
    /\ pc \in {"returned", "raised"}
    /\ results' = IF pc = "returned" /\ ret # <<>> THEN Append(results, ret[1]) ELSE results
    /\ outcomes' = Append(outcomes, [name |-> pdf, how |-> pc, ret |-> ret])
    /\ IF idx < Len(pdfs)
       THEN idx' = idx + 1 /\ wpc' = "loop"
       ELSE idx' = idx /\ wpc' = "finish"
    /\ pc' = "idle"
    /\ UNCHANGED <<pdf, ret, localVars, out_dir, out_files, out_subdirs>>
    /\ UNCHANGED <<argv, environ, exit_status, in_kind, in_names, pdfs, at_start>>

\* lines 264-266: process_directory has returned; the summary; exit
Finish ==
    /\ wpc = "finish"
    /\ wpc' = "exited"
    /\ exit_status' = 0
    /\ UNCHANGED <<extractVars, argv, environ, in_kind, in_names, pdfs, idx, results,
                   outcomes, at_start>>

\* the script; extract_pdf_multipage runs while process_directory waits for it
NextScript ==
    \/ Main /\ UNCHANGED toolVars
    \/ ProcessDirectory /\ UNCHANGED toolVars
    \/ CallExtract /\ UNCHANGED toolVars
    \/ wpc = "extracting" /\ Begin /\ UNCHANGED <<scriptVars, toolVars>>
    \/ \E resp \in WalkerResponses :
          wpc = "extracting" /\ AttemptSuccess(resp, WalkerMaxPage) /\ UNCHANGED <<scriptVars, toolVars>>
    \/ \E resp \in WalkerResponses :
          wpc = "extracting" /\ AttemptEndOfDoc(resp, WalkerMaxPage) /\ UNCHANGED <<scriptVars, toolVars>>
    \/ \E resp \in WalkerResponses :
          wpc = "extracting" /\ AttemptRateLimit(resp, WalkerMaxPage) /\ UNCHANGED <<scriptVars, toolVars>>
    \/ \E resp \in WalkerResponses :
          wpc = "extracting" /\ AttemptOther(resp, WalkerMaxPage) /\ UNCHANGED <<scriptVars, toolVars>>
    \/ wpc = "extracting" /\ PageEnd /\ UNCHANGED <<scriptVars, toolVars>>
    \/ AfterExtract /\ UNCHANGED toolVars
    \/ Finish /\ UNCHANGED toolVars

\* the state common to every start of the script
InitScript ==
    /\ SplitUnused
    /\ OcrUnused
    /\ wpc = "main"
    /\ pc = "idle"
    /\ pdf = ""
    /\ page_num = 0
    /\ pages = <<>>
    /\ retries = 0
    /\ page_success = FALSE
    /\ ret = <<>>
    /\ log = <<>>
    /\ events = <<>>
    /\ files_at_entry = out_files
    /\ exit_status = -1
    /\ pdfs = <<>>
    /\ idx = 0
    /\ results = <<>>
    /\ outcomes = <<>>
    /\ at_start = [dir |-> out_dir, files |-> out_files, environ |-> environ]

\* the entries a walked input directory may hold
DirEntries == {"b.pdf", "a.pdf", "B.pdf", "notes.txt"}

\* a run with a credential, over any input directory and an output path that is
\* missing, a regular file, or a directory (which may hold a directory "a.txt"
\* and the text file of an earlier run)
InitWalk ==
    /\ argv = [api_key_named |-> <<"sk-named">>, api_key |-> <<>>]
    /\ environ = NoEnviron
    /\ in_kind = "dir"
    /\ in_names \in SUBSET DirEntries
    /\ \/ out_dir \in {"missing", "file"} /\ out_subdirs = {}
       \/ out_dir = "dir" /\ out_subdirs \in {{}, {"a.txt"}}
    /\ out_files \in (IF out_dir = "dir"
                      THEN {NoFiles, WriteText(NoFiles, "b.txt", "stale")}
                      ELSE {NoFiles})
    /\ InitScript

SpecWalk == InitWalk /\ [][NextScript]_vars

\* the api key arguments and environment values a run may start with
KeyArgs == {<<>>, <<"">>, <<"sk-named">>, <<"Dummy">>}
PosArgs == {<<>>, <<"sk-pos">>, <<"none">>}
TyphoonEnv == {<<>>, <<"">>, <<"sk-typhoon">>}
OpenAiEnv == {<<>>, <<"sk-openai">>}

\* a run with any api key arguments and environment, over an input path that is
\* missing, a regular file, or a directory with one PDF
InitMain ==
    /\ argv \in [api_key_named : KeyArgs, api_key : PosArgs]
    /\ environ \in [TYPHOON_OCR_API_KEY : TyphoonEnv, OPENAI_API_KEY : OpenAiEnv]
    /\ in_kind \in {"missing", "file", "dir"}
    /\ in_names = IF in_kind = "dir" THEN {"a.pdf"} ELSE {}
    /\ out_dir = "missing"
    /\ out_subdirs = {}
    /\ out_files = NoFiles
    /\ InitScript

SpecMain == InitMain /\ [][NextScript]_vars

(***************************************************************************)
(* chuck_spliter.py: split_into_chunks.                                    *)
(***************************************************************************)
\* the longest list given to split_into_chunks
MaxFiles == 4

\* the largest number of chunks asked for
MaxChunks == 4

\* main asks for this many chunks (chuck_spliter.py:106)
MainChunks == 3

\* the file names a list may hold
FileNames == {SubSeq("abcdefgh", i, i) : i \in 1..MaxFiles}

\* the lists of at most MaxFiles file names
FileLists == UNION {[1..n -> FileNames] : n \in 0..MaxFiles}

\* math.ceil(a / b) of line 45, for a >= 0 and b >= 1
Ceil(a, b) == (a + b - 1) \div b

Min(a, b) == IF a <= b THEN a ELSE b

\* the slice l[start:end_] of line 51, for start >= 0 and end_ >= 0
Slice(l, start, end_) ==
    IF start >= Min(end_, Len(l)) THEN <<>> ELSE SubSeq(l, start + 1, Min(end_, Len(l)))

\* split_into_chunks whose chunk size is rounded down
split_into_chunks_RoundsDown(files, n) ==
    IF files = <<>>
    THEN [i \in 1..n |-> <<>>]
    ELSE LET chunk_size == Len(files) \div n
         IN  [i \in 1..n |->
                 LET start_idx == (i - 1) * chunk_size
                     end_idx == Min(start_idx + chunk_size, Len(files))
                 IN  Slice(files, start_idx, end_idx)]

\* lines 38-53; the loop index i of range(num_chunks) is i - 1 here
split_into_chunks(files, n) ==
    IF files = <<>>
    THEN [i \in 1..n |-> <<>>]
    ELSE LET chunk_size == Ceil(Len(files), n)
         IN  [i \in 1..n |->
                 LET start_idx == (i - 1) * chunk_size
                     end_idx == Min(start_idx + chunk_size, Len(files))
                 IN  Slice(files, start_idx, end_idx)]

\* one call of split_into_chunks
SplitIntoChunks ==
    /\ split_pc = "called"
    /\ chunks' = split_into_chunks(file_list, num_chunks)
    /\ split_pc' = "returned"
    /\ UNCHANGED <<file_list, num_chunks>>

\* every other part of the repository at rest
InitIdle ==
    /\ argv = NoArgs
    /\ environ = NoEnviron
    /\ in_kind = "missing"
    /\ in_names = {}
    /\ out_dir = "missing"
    /\ out_subdirs = {}
    /\ out_files = NoFiles
    /\ wpc = "unused"
    /\ pc = "idle"
    /\ pdf = ""
    /\ page_num = 0
    /\ pages = <<>>
    /\ retries = 0
    /\ page_success = FALSE
    /\ ret = <<>>
    /\ log = <<>>
    /\ events = <<>>
    /\ files_at_entry = out_files
    /\ exit_status = -1
    /\ pdfs = <<>>
    /\ idx = 0
    /\ results = <<>>
    /\ outcomes = <<>>
    /\ at_start = [dir |-> out_dir, files |-> out_files, environ |-> environ]

\* split_into_chunks is called with any list and any number of chunks from 1 on
\* (main calls it with MainChunks)
InitChunks ==
    /\ split_pc = "called"
    /\ file_list \in FileLists
    /\ num_chunks \in 1..MaxChunks \cup {MainChunks}
    /\ chunks = <<>>
    /\ OcrUnused
    /\ InitIdle

NextChunks ==
    \/ SplitIntoChunks /\ UNCHANGED <<extractVars, scriptVars, ocrVars>>

SpecChunks == InitChunks /\ [][NextChunks]_vars

(***************************************************************************)
(* easy_ocr_extractor.py: main and pdfs_to_easyocr_text.                   *)
(***************************************************************************)
\* the default of the --dpi option (easy_ocr_extractor.py:109)
DefaultDpi == 300

\* the dpi argument of the call of convert_from_path (easy_ocr_extractor.py:48)
ConvertDpi == 300

\* the PDFs of the modelled input directory have at most this many pages
MaxOcrPages == 1

\* the --dpi option of the command line: absent, or given with a value
DpiOptions == {<<>>, <<72>>, <<150>>, <<300>>}

\* the entries the input directory may hold
OcrDirEntries == {"a.pdf", "B.PDF", "notes.txt"}

\* what reader.readtext returns for a page: its paragraphs
PageTexts == {<<>>, <<"x">>, <<"x", "y">>}

\* the paragraphs of the pages of a PDF
PdfTexts == UNION {[1..n -> PageTexts] : n \in 0..MaxOcrPages}

\* the orders in which os.listdir may give a set of names
Orderings(names) ==
    {o \in [1..Cardinality(names) -> names] : \A i, j \in DOMAIN o : o[i] = o[j] => i = j}

\* os.path.splitext(name)[0] of a file name (line 72)
SplitExtRoot(name) ==
    LET dots == {i \in 1..Len(name) : SubSeq(name, i, i) = "."}
        last == CHOOSE i \in dots : \A j \in dots : j <= i
    IN  IF dots # {} /\ (\E j \in 1..(last - 1) : SubSeq(name, j, j) # ".")
        THEN SubSeq(name, 1, last - 1)
        ELSE name

\* str(i) for a page number below ten
PageNo(i) == SubSeq("123456789", i, i)

RECURSIVE AllText(_, _)
\* lines 54-69: the lines collected for the pages from the i-th on
AllText(texts, i) ==
    IF i > Len(texts) THEN <<>>
    ELSE <<"--- Page " \o PageNo(i) \o " ---">> \o texts[i] \o <<"\n">> \o AllText(texts, i + 1)

\* lines 86-118: the arguments are parsed and the input directory is validated
OcrMain ==
    /\ ocr_pc = "main"
    /\ ocr_args' = [dpi |-> IF ocr_argv = <<>> THEN DefaultDpi ELSE ocr_argv[1]]
    /\ IF ocr_dir.kind # "dir"
       THEN ocr_pc' = "exited" /\ ocr_exit' = 1
       ELSE ocr_pc' = "listing" /\ ocr_exit' = ocr_exit
    /\ UNCHANGED <<ocr_argv, ocr_dir, pdf_files, conversions, txt_files>>

\* lines 27-40: the output directory is made and the PDFs are listed
OcrListPdfs(order) ==
    /\ ocr_pc = "listing"
    /\ IF ocr_dir.out = "file"
       THEN /\ ocr_pc' = "exited"                     \* makedirs: FileExistsError
            /\ ocr_exit' = 1
            /\ UNCHANGED <<ocr_dir, pdf_files>>
       ELSE LET found == {f \in ocr_dir.names : EndsWith(Lower(f), ".pdf")}
            IN  /\ order \in Orderings(found)
                /\ ocr_dir' = [ocr_dir EXCEPT !.out = "dir"]
                /\ pdf_files' = order
                /\ IF found = {}
                   THEN ocr_pc' = "done" /\ ocr_exit' = 0
                   ELSE ocr_pc' = "loop" /\ ocr_exit' = ocr_exit
    /\ UNCHANGED <<ocr_argv, ocr_args, conversions, txt_files>>

\* lines 42-52: the conversion of the next PDF fails
OcrConvertFails ==
    /\ ocr_pc = "loop"
    /\ pdf_files # <<>>
    /\ conversions' = Append(conversions, [pdf |-> Head(pdf_files), dpi |-> ConvertDpi])
    /\ pdf_files' = Tail(pdf_files)
    /\ UNCHANGED <<ocr_pc, ocr_argv, ocr_args, ocr_dir, txt_files, ocr_exit>>

\* lines 42-80: the next PDF is converted, read page by page and saved, unless
\* the text file cannot be written
OcrPdf(texts, saved) ==
    /\ ocr_pc = "loop"
    /\ pdf_files # <<>>
    /\ conversions' = Append(conversions, [pdf |-> Head(pdf_files), dpi |-> ConvertDpi])
    /\ txt_files' = IF saved
                    THEN WriteText(txt_files, SplitExtRoot(Head(pdf_files)) \o ".txt",
                                   Join("\n", AllText(texts, 1)))
                    ELSE txt_files
    /\ pdf_files' = Tail(pdf_files)
    /\ UNCHANGED <<ocr_pc, ocr_argv, ocr_args, ocr_dir, ocr_exit>>

\* line 82: every PDF was processed
OcrDone ==
    /\ ocr_pc = "loop"
    /\ pdf_files = <<>>
    /\ ocr_pc' = "done"
    /\ ocr_exit' = 0
    /\ UNCHANGED <<ocr_argv, ocr_args, ocr_dir, pdf_files, conversions, txt_files>>

\* a run with or without --dpi, over an input path that is missing or a
\* directory and an output path that is missing, a directory or a regular file
InitOcr ==
    /\ ocr_pc = "main"
    /\ ocr_argv \in DpiOptions
    /\ ocr_args = [dpi |-> 0]
    /\ ocr_dir \in [kind : {"missing", "dir"}, names : SUBSET OcrDirEntries,
                    out : {"missing", "dir", "file"}]
    /\ ocr_dir.kind = "missing" => ocr_dir.names = {}
    /\ pdf_files = <<>>
    /\ conversions = <<>>
    /\ txt_files = NoFiles
    /\ ocr_exit = -1
    /\ SplitUnused
    /\ InitIdle

NextOcr ==
    \/ OcrMain /\ UNCHANGED <<extractVars, scriptVars, splitVars>>
    \/ \E order \in UNION {Orderings(n) : n \in SUBSET OcrDirEntries} :
          OcrListPdfs(order) /\ UNCHANGED <<extractVars, scriptVars, splitVars>>
    \/ OcrConvertFails /\ UNCHANGED <<extractVars, scriptVars, splitVars>>
    \/ \E texts \in PdfTexts, saved \in BOOLEAN :
          OcrPdf(texts, saved) /\ UNCHANGED <<extractVars, scriptVars, splitVars>>
    \/ OcrDone /\ UNCHANGED <<extractVars, scriptVars, splitVars>>

SpecOcr == InitOcr /\ [][NextOcr]_vars

(***************************************************************************)
(* Properties of extract_pdf_multipage.                                    *)
(***************************************************************************)
Last(s) == s[Len(s)]

\* the backend calls of the history that took the given branch
CallsOf(branch) == {i \in 1..Len(log) : BranchOf[log[i].resp] = branch}

\* the history without its rate-limited calls
NonRateLimited(l) == SelectSeq(l, LAMBDA c : BranchOf[c.resp] # "RateLimited")

\* the rate-limited calls made for page p
RateLimitedCalls(p) == {i \in CallsOf("RateLimited") : log[i].page = p}

\* no page of the history used up its retries
NoPageExhausted == \A p \in 1..(MaxPage + 1) : Cardinality(RateLimitedCalls(p)) < MAX_RETRIES

WriteEvents == {i \in 1..Len(events) : events[i].kind = "write"}

\* the text a response carries: the text field of a serialized structure that
\* has one, else the raw string
TextOfResponse(resp) ==
    LET parsed == JsonLoads(resp.s)
    IN  IF resp.isstr /\ parsed.kind = "dict" /\ parsed.has_text
        THEN parsed.natural_text
        ELSE resp.s

TrimmedText == [resp \in AllResponses |-> IF resp.raised THEN "" ELSE Strip(TextOfResponse(resp))]

\* the trimmed non-empty texts of the pages the backend answered, in call order
TextsSeen(l) ==
    SelectSeq([i \in 1..Len(l) |-> TrimmedText[l[i].resp]], LAMBDA t : t # "")

\* the texts the loop accumulates from a history without rate limits: the
\* stripped non-empty text of every answer that took the success branch
TextsRead(l) ==
    SelectSeq([i \in 1..Len(l) |-> IF BranchOf[l[i].resp] = "Success"
                                   THEN Observed[l[i].resp].s ELSE ""],
              LAMBDA t : t # "")

\* C1: when extract_pdf_multipage has returned a path, the file at that path
\* holds exactly the trimmed non-empty texts of all pages the backend answered
\* with text before the end-of-document signal, in page order, joined by "\n\n".
C1_FileHoldsTextsSeen ==
    (pc = "returned" /\ ret # <<>>) =>
        /\ ret[1] \in DOMAIN out_files
        /\ out_files[ret[1]] = Join("\n\n", TextsSeen(log))

\* C2: on return, a path is returned exactly when some non-empty text was
\* accumulated; and when every page probed before the end-of-document signal gave
\* empty text or an error, None is returned and output_dir holds what it held
\* before (no file was written).
C2_NoTextNoFile ==
    pc = "returned" =>
        /\ (ret # <<>>) <=> (pages # <<>>)
        /\ ret # <<>> => (ret = <<OutName(pdf)>> /\ OutName(pdf) \in DOMAIN out_files)
        /\ TextsSeen(log) = <<>> =>
              /\ ret = <<>>
              /\ WriteEvents = {}
              /\ out_files = files_at_entry

C2_Witness ==
    /\ pc = "returned"
    /\ ret = <<>>
    /\ Len(log) = 4
    /\ CallsOf("Other") # {}
    /\ CallsOf("RateLimited") # {}
    /\ \E i \in 1..Len(log) : log[i].resp = OkStr(" \n")
    /\ out_dir = "dir"
    /\ out_files = NoFiles

\* C3: when no page used up its retries, the run is the run of the same answers
\* with the rate-limit errors removed: the remaining answers are those of pages
\* 1, 2, 3, ... in order, one per page, and the accumulated texts, the returned
\* value and the written file are those of these answers alone.
C3_RateLimitsLeaveNoTrace ==
    (pc = "returned" /\ NoPageExhausted) =>
        LET rest == NonRateLimited(log)
        IN  /\ \A i \in 1..Len(rest) : rest[i].page = i
            /\ pages = TextsRead(rest)
            /\ ret = IF TextsRead(rest) = <<>> THEN <<>> ELSE <<OutName(pdf)>>
            /\ ret # <<>> => out_files[ret[1]] = Join("\n\n", TextsRead(rest))

\* [text A, 429, 429, text B, text C, EOF] has given "A\n\nB\n\nC"
C3_Witness ==
    /\ pc = "returned"
    /\ [i \in 1..Len(log) |-> log[i].resp]
         = <<OkStr("A"), RateLimitError, RateLimitError, OkStr(" B\n"),
             OkStr("{\"natural_text\": \"C\"}"), EndOfDocError>>
    /\ [i \in 1..Len(log) |-> log[i].page] = <<1, 2, 2, 2, 3, 4>>
    /\ out_files["doc.txt"] = "A\n\nB\n\nC"

\* the position in events of the i-th backend call
CallEvent(i) ==
    CHOOSE k \in 1..Len(events) :
        /\ events[k].kind = "call"
        /\ Cardinality({m \in 1..k : events[m].kind = "call"}) = i

\* the cursor after the last call of the history, made for page p, has moved on
\* by exactly one and the loop goes on
AdvancedByOneFrom(p) ==
    \/ pc = "page_end" /\ page_num \in {p, p + 1}
          /\ (page_num = p <=> (~page_success /\ retries >= MAX_RETRIES))
    \/ pc = "probing" /\ page_num = p + 1 /\ retries = 0

\* pages whose attempts were all rate-limited up to the retry cap
ExhaustedPages == {p \in 1..(MaxPage + 1) : Cardinality(RateLimitedCalls(p)) >= MAX_RETRIES}

\* C4: a page that was rate-limited MAX_RETRIES times was called exactly that
\* often and never answered; it contributes nothing to the accumulated texts;
\* the extraction is not ended by it; the cursor moves on by one and the next
\* backend call is made for the following page number.
C4_ExhaustedPageIsSkipped ==
    \A p \in ExhaustedPages :
        LET calls == {i \in 1..Len(log) : log[i].page = p}
            last  == CHOOSE i \in calls : \A j \in calls : j <= i
        IN  /\ calls = RateLimitedCalls(p)
            /\ Cardinality(calls) = MAX_RETRIES
            /\ pages = TextsRead(log)
            /\ last < Len(log) => log[last + 1].page = p + 1
            /\ last = Len(log) => AdvancedByOneFrom(p)

C4_Witness ==
    /\ pc = "returned"
    /\ ExhaustedPages = {2}
    /\ [i \in 1..Len(log) |-> log[i].page] = <<1, 2, 2, 2, 2, 2, 3, 4>>
    /\ out_files["doc.txt"] = "A\n\nB"

\* C5: a backend error that is neither an end-of-document nor a rate-limit
\* signal is the last call made for its page: the event after the call is not a
\* backoff sleep, nothing is accumulated for it, and the cursor moves on by
\* exactly one (the next call is for the following page number).
C5_OtherErrorSkipsPageAtOnce ==
    \A i \in CallsOf("Other") :
        log[i].resp.raised =>
            /\ \A j \in 1..Len(log) : (log[j].page = log[i].page) => j <= i
            /\ i < Len(log) => log[i + 1].page = log[i].page + 1
            /\ i = Len(log) => (pc = "probing" /\ page_num = log[i].page + 1 /\ retries = 0)
                               \/ (pc = "page_end" /\ page_num = log[i].page + 1)
            /\ CallEvent(i) < Len(events) =>
                  events[CallEvent(i) + 1].kind \in {"throttle", "call"}
            /\ pages = TextsRead(log)

\* an other error after four rate limits on the same page, and the run went on
C5_Witness ==
    /\ pc = "returned"
    /\ \E i \in CallsOf("Other") :
          /\ log[i].resp = OtherError
          /\ Cardinality(RateLimitedCalls(log[i].page)) = MAX_RETRIES - 1
          /\ i + 1 < Len(log)
    /\ pages # <<>>

\* C6: at most one write is made per invocation; it is the last thing that
\* happens, on the end-of-document signal with a non-empty accumulation; while
\* pages are being probed the output directory holds what it held at entry.
C6_WriteOnceAtTerminalPoint ==
    /\ Cardinality(WriteEvents) <= 1
    /\ WriteEvents # {} =>
          /\ WriteEvents = {Len(events)}
          /\ pc = "returned"
          /\ BranchOf[Last(log).resp] = "EndOfDocument"
          /\ pages # <<>>
    /\ pc \in {"probing", "page_end"} => (WriteEvents = {} /\ out_files = files_at_entry)
    /\ out_files # files_at_entry =>
          /\ WriteEvents # {}
          /\ out_files = WriteText(files_at_entry, OutName(pdf), Join("\n\n", pages))

\* one write, after the fourth backend call, of the two texts read
C6_Witness ==
    /\ pc = "returned"
    /\ Cardinality(WriteEvents) = 1
    /\ Last(events).kind = "write"
    /\ out_files = WriteText(NoFiles, "doc.txt", "A\n\nC")
    /\ Len(log) >= 4

\* C7: the function returns only on an end-of-document error: on return the
\* last backend answer is one; an end-of-document error is always the last call;
\* as long as the backend has raised none, the function has not returned and has
\* written nothing; the code after the loop is never reached.
C7_ReturnsOnlyOnEndOfDoc ==
    /\ pc \in {"entry", "probing", "page_end", "returned", "raised"}
    /\ pc = "returned" =>
          /\ log # <<>>
          /\ Last(log).resp.raised
          /\ BranchOf[Last(log).resp] = "EndOfDocument"
    /\ CallsOf("EndOfDocument") \subseteq {Len(log)}
    /\ CallsOf("EndOfDocument") = {} =>
          /\ pc \in {"entry", "probing", "page_end"}
          /\ WriteEvents = {}
          /\ out_files = files_at_entry

\* returned after a page that was throttled up to the cap and a failed page
C7_Witness ==
    /\ pc = "returned"
    /\ ExhaustedPages # {}
    /\ CallsOf("Other") # {}
    /\ Last(log).resp = EndOfDocError

\* a backend that has not raised an end-of-document error: still probing
C7_WitnessStillProbing ==
    /\ pc = "probing"
    /\ Len(log) >= MAX_RETRIES + 2
    /\ CallsOf("EndOfDocument") = {}

(***************************************************************************)
(* Properties of the script.                                               *)
(***************************************************************************)
OutcomeNames == [i \in 1..Len(outcomes) |-> outcomes[i].name]

\* the paths returned by the extractions that returned one, in processing order
ReturnedPaths ==
    LET got == SelectSeq(outcomes, LAMBDA o : o.how = "returned" /\ o.ret # <<>>)
    IN  [i \in 1..Len(got) |-> got[i].ret[1]]

\* C8: the documents are processed one after the other in increasing order of
\* their file names, each PDF of the directory once; the list of results holds
\* exactly the paths returned by the extractions, in that order, and nothing for
\* a document whose extraction raised; after an exception the remaining
\* documents are processed all the same.
C8_WalkerContinuesPastErrors ==
    /\ \A i, j \in 1..Len(outcomes) : i < j => StrLess(outcomes[i].name, outcomes[j].name)
    /\ \A i \in 1..Len(outcomes) :
          outcomes[i].name \in in_names /\ EndsWith(outcomes[i].name, ".pdf")
    /\ results = ReturnedPaths
    /\ \A i \in 1..Len(outcomes) :
          outcomes[i].how = "raised" =>
              \A k \in 1..Len(results) : results[k] # OutName(outcomes[i].name)
    /\ wpc \in {"finish", "exited"} =>
          {outcomes[i].name : i \in 1..Len(outcomes)}
              = {n \in in_names : EndsWith(n, ".pdf")}
    /\ wpc = "extracting" => (idx = Len(outcomes) + 1 /\ pdf = pdfs[idx])

\* a.pdf raised between two documents that gave a file
C8_Witness ==
    /\ wpc = "exited"
    /\ exit_status = 0
    /\ OutcomeNames = <<"B.pdf", "a.pdf", "b.pdf">>
    /\ outcomes[1].how = "returned"
    /\ outcomes[2].how = "raised"
    /\ outcomes[3].how = "returned"
    /\ results = <<"B.txt", "b.txt">>

\* C9: when the input path is missing or is no directory, the first step of the
\* script ends it with a non-zero exit status: no document was processed, no
\* backend call was made, and the output directory and its files are as they
\* were at the start.
C9_InvalidInputAborts ==
    (in_kind # "dir" /\ wpc # "main") =>
        /\ wpc = "exited"
        /\ exit_status > 0
        /\ outcomes = <<>>
        /\ results = <<>>
        /\ pc = "idle"
        /\ log = <<>>
        /\ out_dir = at_start.dir
        /\ out_files = at_start.files

\* a credential was given and the input path is a regular file
C9_Witness ==
    /\ wpc = "exited"
    /\ in_kind = "file"
    /\ argv.api_key_named = <<"sk-named">>
    /\ environ.TYPHOON_OCR_API_KEY = <<"sk-named">>
    /\ exit_status = 1
    /\ out_dir = "missing"

\* the api key given on the command line: the named option, else the positional
CommandLineKey == IF Truthy(argv.api_key_named) THEN argv.api_key_named ELSE argv.api_key

\* the first of the three sources, in priority order, that is acceptable
FirstOf(cli_ok) ==
    IF cli_ok THEN CommandLineKey
    ELSE IF Truthy(at_start.environ.TYPHOON_OCR_API_KEY)
    THEN at_start.environ.TYPHOON_OCR_API_KEY
    ELSE IF Truthy(at_start.environ.OPENAI_API_KEY)
    THEN at_start.environ.OPENAI_API_KEY
    ELSE <<>>

\* the run uses the credential `want`; with none it has exited with an error
\* before any document was processed
Resolved(want) ==
    wpc # "main" =>
        IF want = <<>>
        THEN /\ wpc = "exited"
             /\ exit_status > 0
             /\ outcomes = <<>>
             /\ log = <<>>
             /\ environ = at_start.environ
        ELSE /\ environ.TYPHOON_OCR_API_KEY = want
             /\ in_kind = "dir" => (exit_status \in {-1, 0})

\* C10 as stated: the credential is the command-line value whenever one was
\* given, else TYPHOON_OCR_API_KEY, else OPENAI_API_KEY, else the run aborts.
C10_CommandLineValueWins == Resolved(FirstOf(Truthy(CommandLineKey)))

\* C10, amended: a command-line value that is "none" or "dummy" in any letter
\* case counts as not given; otherwise the credential is the command-line value
\* (named option before positional), else a non-empty TYPHOON_OCR_API_KEY, else
\* a non-empty OPENAI_API_KEY, else the run aborts before any document.
C10_PlaceholderKeysAreSkipped ==
    Resolved(FirstOf(/\ Truthy(CommandLineKey)
                     /\ Lower(CommandLineKey[1]) \notin {"none", "dummy"}))

\* "Dummy" on the command line, an empty TYPHOON_OCR_API_KEY: OPENAI_API_KEY is used
C10_Witness ==
    /\ wpc = "exited"
    /\ exit_status = 0
    /\ argv.api_key_named = <<"Dummy">>
    /\ at_start.environ = [TYPHOON_OCR_API_KEY |-> <<"">>, OPENAI_API_KEY |-> <<"sk-openai">>]
    /\ environ.TYPHOON_OCR_API_KEY = <<"sk-openai">>
    /\ outcomes # <<>>


\* the positions in log of the backend calls made for page p
CallsForPage(p) == {i \in 1..Len(log) : log[i].page = p}

\* C14: the cursor starts at 1 and never falls behind the last page requested;
\* the first backend call is for page 1, every later call is for the page of the
\* call before it or for the next one, the cursor is at the last requested page
\* or one past it, and every page below the cursor was requested at least once.
C14_CursorAdvancesByOne ==
    /\ pc # "entry" => page_num >= 1
    /\ (pc = "probing" /\ log = <<>>) => page_num = 1
    /\ log # <<>> => log[1].page = 1
    /\ \A i \in 1..(Len(log) - 1) : log[i + 1].page \in {log[i].page, log[i].page + 1}
    /\ log # <<>> => page_num \in {Last(log).page, Last(log).page + 1}
    /\ \A p \in 1..(page_num - 1) : CallsForPage(p) # {}

\* page 1 read, page 2 failed with another error, page 3 throttled up to the
\* cap: the cursor stands at page 4, one step per outcome
C14_Witness ==
    /\ pc = "probing"
    /\ page_num = 4
    /\ \E i \in CallsForPage(1) : BranchOf[log[i].resp] = "Success"
    /\ \E i \in CallsForPage(2) : BranchOf[log[i].resp] = "Other"
    /\ Cardinality(RateLimitedCalls(3)) = MAX_RETRIES

\* C15: no page number is passed to the backend more than MAX_RETRIES times,
\* whatever the backend answers.
C15_AtMostMaxRetriesCallsPerPage ==
    \A i \in 1..Len(log) : Cardinality(CallsForPage(log[i].page)) <= MAX_RETRIES

\* a page called MAX_RETRIES times: rate-limited on all attempts but the last,
\* which succeeded
C15_Witness ==
    \E p \in 1..MaxPage :
        /\ Cardinality(CallsForPage(p)) = MAX_RETRIES
        /\ Cardinality(RateLimitedCalls(p)) = MAX_RETRIES - 1
        /\ \E i \in CallsForPage(p) : BranchOf[log[i].resp] = "Success"
        /\ page_num > p

\* pages the cursor has left although every call made for them was rate-limited
SkippedForThrottling == {p \in 1..(page_num - 1) :
                            CallsForPage(p) # {} /\ CallsForPage(p) = RateLimitedCalls(p)}

\* C16: the retry counter counts the rate-limited calls of the current page only
\* (it is zero again when the cursor has advanced), and a page is given up for
\* throttling only after MAX_RETRIES rate-limited calls for that page number.
C16_RetryBudgetIsPerPage ==
    /\ pc = "probing" => retries = Cardinality(RateLimitedCalls(page_num))
    /\ (pc = "page_end" /\ ~page_success) =>
           retries = Cardinality(RateLimitedCalls(Last(log).page))
    /\ \A p \in SkippedForThrottling : Cardinality(RateLimitedCalls(p)) = MAX_RETRIES

\* two rate limits on page 1 before it was read, then three on page 2: the
\* counter of page 2 stands at three and the page is still being retried
C16_Witness ==
    /\ pc = "probing"
    /\ page_num = 2
    /\ Cardinality(RateLimitedCalls(1)) = 2
    /\ Cardinality(RateLimitedCalls(2)) = 3
    /\ retries = 3

\* C17 as stated: every backoff sleep is followed by another backend call for
\* the same page (the next sleep or call is for that page, and while the sleep
\* is the last thing done the loop is still on that page), so no backoff sleep
\* is taken for a page that is then skipped.
C17_BackoffOnlyBeforeRetry ==
    \A k \in 1..Len(events) : events[k].kind = "backoff" =>
        /\ k < Len(events) => events[k + 1].page = events[k].page
        /\ k = Len(events) => (pc = "probing" /\ page_num = events[k].page)

\* C18: every backend call for a page after the first, retries included, comes
\* directly after a throttle sleep of at least MIN_DELAY taken for that page, and
\* no throttle sleep comes before a call for page 1.
C18_ThrottleBeforeEveryLaterPageCall ==
    \A k \in 1..Len(events) : events[k].kind = "call" =>
        IF events[k].page > 1
        THEN /\ k > 1
             /\ events[k - 1].kind = "throttle"
             /\ events[k - 1].page = events[k].page
             /\ events[k - 1].n >= MIN_DELAY_MS
        ELSE k = 1 \/ events[k - 1].kind # "throttle"

\* a retry of page 1 and a retry of page 2 were both made
C18_Witness ==
    /\ \E k \in 1..Len(events) :
           events[k].kind = "call" /\ events[k].page = 1 /\ events[k].n >= 1
    /\ \E k \in 2..Len(events) :
           /\ events[k].kind = "call" /\ events[k].page = 2 /\ events[k].n >= 1
           /\ events[k - 1].kind = "throttle"


(***************************************************************************)
(* Properties of the classification of backend errors.                     *)
(***************************************************************************)
\* the errors that mention a quota, the status 429 or "too many requests" and
\* are no end-of-document signal
QuotaOrThrottlingErrors ==
    {resp \in AllResponses :
        /\ resp.raised
        /\ resp \notin EndOfDocAnswers
        /\ \/ Contains(Lower(resp.s), "quota")
           \/ Contains(resp.s, "429")
           \/ Contains(Lower(resp.s), "too many requests")}

\* the errors that contain "429", or "rate limit" or "too many requests" in any
\* letter case, and are no end-of-document signal
ThrottlingErrors ==
    {resp \in AllResponses :
        /\ resp.raised
        /\ resp \notin EndOfDocAnswers
        /\ \/ Contains(resp.s, "429")
           \/ Contains(Lower(resp.s), "rate limit")
           \/ Contains(Lower(resp.s), "too many requests")}

\* the i-th backend call was handled as a rate-limit signal: the backoff sleep
\* follows it and, below the retry cap, the loop stays on the page with one
\* retry more on the counter; at the cap the page is given up, not retried
HandledAsRateLimit(i) ==
    LET k == CallEvent(i)
        p == log[i].page
        n == events[k].n
    IN  /\ k < Len(events)
        /\ events[k + 1].kind = "backoff"
        /\ events[k + 1].page = p
        /\ IF n + 1 < MAX_RETRIES
           THEN /\ i < Len(log) => (log[i + 1].page = p /\ events[CallEvent(i + 1)].n = n + 1)
                /\ i = Len(log) => (pc = "probing" /\ page_num = p /\ retries = n + 1)
           ELSE /\ i < Len(log) => log[i + 1].page = p + 1
                /\ i = Len(log) => \/ pc = "page_end" /\ page_num = p
                                   \/ pc = "probing" /\ page_num = p + 1

\* C19 as stated: an error that mentions a quota, the status 429 or "too many
\* requests" and is no end-of-document signal is handled as a rate-limit
\* signal: backoff, then a retry of the same page, not a skip.
C19_QuotaOr429IsRateLimit ==
    \A i \in 1..Len(log) : log[i].resp \in QuotaOrThrottlingErrors => HandledAsRateLimit(i)

\* C19, amended: an error whose message contains "429", or "rate limit" or "too
\* many requests" in any letter case, and is no end-of-document signal is
\* handled as a rate-limit signal: the counter is incremented, the backoff sleep
\* is taken and, unless that was the MAX_RETRIES-th rate limit of the page, the
\* same page is retried; it is not skipped as an ordinary error.
C19_ThrottlingWordsAreRateLimit ==
    \A i \in 1..Len(log) : log[i].resp \in ThrottlingErrors => HandledAsRateLimit(i)

\* "Rate limit reached" and "TOO MANY REQUESTS" were raised for page 1, which
\* was then read at its third attempt
C19_Witness ==
    /\ Len(log) >= 3
    /\ log[1] = [page |-> 1, resp |-> Err("Rate limit reached")]
    /\ log[2] = [page |-> 1, resp |-> Err("TOO MANY REQUESTS")]
    /\ log[3] = [page |-> 1, resp |-> OkStr("A")]
    /\ pages = <<"A">>

\* the errors whose message matches an end-of-document pattern and a
\* rate-limit pattern
BothSignals == {resp \in AllResponses : resp.raised /\ IsEndOfDoc(resp.s) /\ IsRateLimit(resp.s)}

\* C20: an error that matches an end-of-document pattern and a rate-limit
\* pattern ends the document at its first occurrence: it is the last backend
\* call, the function has returned (after the write when texts were
\* accumulated), no backoff sleep follows the call and the retry counter is
\* what it was when the call was made.
C20_EndOfDocBeforeRateLimit ==
    \A i \in 1..Len(log) : log[i].resp \in BothSignals =>
        /\ i = Len(log)
        /\ pc = "returned"
        /\ page_num = log[i].page
        /\ retries = events[CallEvent(i)].n
        /\ \A k \in (CallEvent(i) + 1)..Len(events) : events[k].kind = "write"
        /\ (pages # <<>>) <=> (Last(events).kind = "write")

\* page 1 was read, page 2 was rate-limited twice and then raised an error that
\* matches both patterns: the text of page 1 is written, the counter is still 2
C20_Witness ==
    /\ pc = "returned"
    /\ Last(log) = [page |-> 2, resp |-> Err("429: page out of range")]
    /\ Cardinality(RateLimitedCalls(2)) = 2
    /\ retries = 2
    /\ ret = <<OutName(pdf)>>
    /\ out_files[OutName(pdf)] = "A"


(***************************************************************************)
(* Properties of split_into_chunks.                                        *)
(***************************************************************************)
RECURSIVE Concat(_)
\* the lists of a list of lists, one after the other
Concat(ll) == IF ll = <<>> THEN <<>> ELSE Head(ll) \o Concat(Tail(ll))

\* C11 as stated: for every list and every num_chunks >= 1, the sizes of any
\* two returned chunks differ by at most one.
C11_ChunkSizesDifferByAtMostOne ==
    split_pc = "returned" =>
        \A i, j \in 1..Len(chunks) : Len(chunks[i]) - Len(chunks[j]) <= 1

\* C12: split_into_chunks returns exactly num_chunks chunks whose concatenation
\* in order is the input list; when the list holds no file twice, every file is
\* in exactly one chunk.
C12_ChunksPartitionTheList ==
    split_pc = "returned" =>
        /\ Len(chunks) = num_chunks
        /\ Concat(chunks) = file_list
        /\ (\A m, n \in 1..Len(file_list) : file_list[m] = file_list[n] => m = n) =>
               \A m \in 1..Len(file_list) :
                   Cardinality({i \in 1..Len(chunks) :
                                   \E k \in 1..Len(chunks[i]) : chunks[i][k] = file_list[m]}) = 1

\* two files split into three chunks: the list is shorter than num_chunks
C12_Witness ==
    /\ split_pc = "returned"
    /\ file_list = <<"a", "b">>
    /\ num_chunks = 3
    /\ chunks = <<<<"a">>, <<"b">>, <<>>>>


(***************************************************************************)
(* Properties of easy_ocr_extractor.py.                                    *)
(***************************************************************************)
\* C13 as stated: every conversion of a PDF to images is made at the DPI given
\* with --dpi (300 when the option is absent).
C13_DpiOptionIsUsed ==
    \A k \in 1..Len(conversions) : conversions[k].dpi = ocr_args.dpi

====
